---- MODULE Spec2Model ----
(***************************************************************************)
(* A model of avl::tree<Data_t, less> (src/avl_tree.h) with Data_t = int   *)
(* and less = def_less<int>.                                               *)
(*                                                                         *)
(* The heap is a function from node addresses (positive integers) to node  *)
(* records; NULL is 0.  A `_Node **` is modelled as a slot name:           *)
(*   <<"root", 0>>   the address of this->__root                           *)
(*   <<"left", n>>   the address of n->__left                              *)
(*   <<"right", n>>  the address of n->__right                             *)
(*   <<"null", 0>>   the null pointer-to-pointer                           *)
(* The operators that model member functions work on a context             *)
(* [h |-> heap, root |-> this->__root] and return the context after the    *)
(* call.                                                                   *)
(***************************************************************************)
EXTENDS Integers, Sequences, FiniteSets, TLC

VARIABLES heap, trees, present, last

vars == <<heap, trees, present, last>>

(* ------------------------------ bounds -------------------------------- *)

\* keys offered to insert/remove/search in the single-tree specification: 0..MaxKey
MaxKey == 3

Keys == 0..MaxKey

\* the ascending run inserts 0, 1, ..., AscMax into an empty tree
AscMax == 9

\* keys of the trees handed to unite: 1..UMaxKey
UMaxKey == 3

UKeys == 1..UMaxKey

\* longest initializer list handed to the list constructor
MaxListLen == 3

Lists == UNION {[1..n -> UKeys] : n \in 0..MaxListLen}

(* ------------------------------ nodes --------------------------------- *)

NULL == 0

NULLPP == <<"null", 0>>

ROOTPP == <<"root", 0>>

\* _Node::_Node(const Data_t &data)
NewNode(data) ==
  [data |-> data, height |-> 0, parent |-> NULL, left |-> NULL, right |-> NULL]

\* operator new: the address handed out is the smallest one not in use
NewAddr(h) ==
  CHOOSE i \in 1..(Cardinality(DOMAIN h) + 1) :
    /\ i \notin DOMAIN h
    /\ \A j \in 1..(i - 1) : j \in DOMAIN h

Alloc(h, n, rec) == [i \in (DOMAIN h) \cup {n} |-> IF i = n THEN rec ELSE h[i]]

\* operator delete
Delete(h, n) == [i \in (DOMAIN h) \ {n} |-> h[i]]

\* def_less<int>::operator()
less(x, y) == x < y

Max2(a, b) == IF a >= b THEN a ELSE b

Min2(a, b) == IF a <= b THEN a ELSE b

\* *pp
Deref(C, pp) ==
  CASE pp[1] = "root" -> C.root
    [] pp[1] = "left" -> C.h[pp[2]].left
    [] pp[1] = "right" -> C.h[pp[2]].right

\* *pp = v
Store(C, pp, v) ==
  CASE pp[1] = "root" -> [C EXCEPT !.root = v]
    [] pp[1] = "left" -> [C EXCEPT !.h[pp[2]].left = v]
    [] pp[1] = "right" -> [C EXCEPT !.h[pp[2]].right = v]

(* ----------------------- locator (4.1) -------------------------------- *)

RECURSIVE SearchWalk(_, _, _, _)
SearchWalk(C, data, parent_ptr, curr_pptr) ==
  LET cur == Deref(C, curr_pptr) IN
  IF cur = NULL THEN [parent |-> parent_ptr, pp |-> curr_pptr]
  ELSE IF less(data, C.h[cur].data)
       THEN SearchWalk(C, data, cur, <<"left", cur>>)
  ELSE IF less(C.h[cur].data, data)
       THEN SearchWalk(C, data, cur, <<"right", cur>>)
  ELSE [parent |-> parent_ptr, pp |-> curr_pptr]

_search_place_aux(C, data) == SearchWalk(C, data, NULL, ROOTPP)

(* ----------------------- heights and factors -------------------------- *)

_get_tree_height_from_children(h, n) ==
  Max2(IF h[n].left # NULL THEN 1 + h[h[n].left].height ELSE 0,
       IF h[n].right # NULL THEN 1 + h[h[n].right].height ELSE 0)

_get_balance_factor(h, n) ==
  IF n = NULL THEN -1
  ELSE (IF h[n].left # NULL THEN h[h[n].left].height ELSE -1)
       - (IF h[n].right # NULL THEN h[h[n].right].height ELSE -1)

(* ----------------------- rotation engine (4.4) ------------------------ *)

\* assignments to the fields of a node, each on the context as it is at that point
SetLeft(C, n, v) == [C EXCEPT !.h[n].left = v]

SetRight(C, n, v) == [C EXCEPT !.h[n].right = v]

SetParent(C, n, v) == IF n # NULL THEN [C EXCEPT !.h[n].parent = v] ELSE C

\* to->__parent = from->__parent
CopyParent(C, to, from) == [C EXCEPT !.h[to].parent = C.h[from].parent]

\* n->__height = _get_tree_height_from_children(*n)
UpdateHeight(C, n) == [C EXCEPT !.h[n].height = _get_tree_height_from_children(C.h, n)]

\* if (B_ptr->__parent == nullptr) this->__root = B_ptr
RootIfTop(C, B_ptr) == IF C.h[B_ptr].parent = NULL THEN [C EXCEPT !.root = B_ptr] ELSE C

_rotate_right(C, node) ==
  IF node = NULLPP \/ Deref(C, node) = NULL THEN C
  ELSE IF C.h[Deref(C, node)].left = NULL THEN C
  ELSE
    LET A_ptr == Deref(C, node)
        B_ptr == C.h[A_ptr].left
        Br_ptr == C.h[B_ptr].right
        \* change the children
        C1 == Store(C, node, B_ptr)
        C2 == SetRight(C1, B_ptr, A_ptr)
        C3 == SetLeft(C2, A_ptr, Br_ptr)
        \* change the parents: B_ptr->__right is A_ptr by now
        C4 == CopyParent(C3, B_ptr, A_ptr)
        C5 == SetParent(C4, A_ptr, B_ptr)
        C6 == SetParent(C5, Br_ptr, A_ptr)
        \* update the heights
        C7 == UpdateHeight(C6, A_ptr)
        C8 == UpdateHeight(C7, B_ptr)
    IN RootIfTop(C8, B_ptr)

_rotate_left(C, node) ==
  IF node = NULLPP \/ Deref(C, node) = NULL THEN C
  ELSE IF C.h[Deref(C, node)].right = NULL THEN C
  ELSE
    LET A_ptr == Deref(C, node)
        B_ptr == C.h[A_ptr].right
        Bl_ptr == C.h[B_ptr].left
        \* change the children
        C1 == Store(C, node, B_ptr)
        C2 == SetLeft(C1, B_ptr, A_ptr)
        C3 == SetRight(C2, A_ptr, Bl_ptr)
        \* change the parents
        C4 == CopyParent(C3, B_ptr, A_ptr)
        C5 == SetParent(C4, A_ptr, B_ptr)
        C6 == SetParent(C5, Bl_ptr, A_ptr)
        \* update the heights
        C7 == UpdateHeight(C6, A_ptr)
        C8 == UpdateHeight(C7, B_ptr)
    IN RootIfTop(C8, B_ptr)

_rotate_LL(C, node) ==
  IF node = NULLPP \/ Deref(C, node) = NULL THEN C
  ELSE IF C.h[Deref(C, node)].left = NULL THEN C
  ELSE _rotate_right(C, node)

_rotate_LR(C, node_pptr) ==
  IF node_pptr = NULLPP \/ Deref(C, node_pptr) = NULL THEN C
  ELSE IF C.h[Deref(C, node_pptr)].left = NULL THEN C
  ELSE _rotate_right(_rotate_left(C, <<"left", Deref(C, node_pptr)>>), node_pptr)

_rotate_RL(C, node_pptr) ==
  IF node_pptr = NULLPP \/ Deref(C, node_pptr) = NULL THEN C
  ELSE IF C.h[Deref(C, node_pptr)].right = NULL THEN C
  ELSE _rotate_left(_rotate_right(C, <<"right", Deref(C, node_pptr)>>), node_pptr)

_rotate_RR(C, node) ==
  IF node = NULLPP \/ Deref(C, node) = NULL THEN C
  ELSE IF C.h[Deref(C, node)].right = NULL THEN C
  ELSE _rotate_left(C, node)

\* faulty variant (C24 must reject it): a single rotation is applied where the
\* double one is due
RotationChoiceSingleOnly(h, temp) ==
  IF _get_balance_factor(h, temp) >= 2 THEN "LL"
  ELSE IF _get_balance_factor(h, temp) <= -2 THEN "RR"
  ELSE "none"

\* faulty variant (C2 must reject it): only left-heavy nodes are rebalanced, right-heavy ones are left alone
RotationChoiceLeftOnly(h, temp) ==
  LET curr_bf == _get_balance_factor(h, temp)
      left_bf == _get_balance_factor(h, h[temp].left)
  IN IF curr_bf >= 2 /\ left_bf >= 0 THEN "LL"
     ELSE IF curr_bf >= 2 /\ left_bf = -1 THEN "LR"
     ELSE "none"

\* the rebalance _balance_to_root picks at temp, "none" when no branch is taken
RotationChoice(h, temp) ==
  LET curr_bf == _get_balance_factor(h, temp)
      left_bf == _get_balance_factor(h, h[temp].left)
      right_bf == _get_balance_factor(h, h[temp].right)
  IN IF curr_bf >= 2 /\ left_bf >= 0 THEN "LL"
     ELSE IF curr_bf >= 2 /\ left_bf = -1 THEN "LR"
     ELSE IF curr_bf <= -2 /\ right_bf = 1 THEN "RL"
     ELSE IF curr_bf <= -2 /\ right_bf <= 0 THEN "RR"
     ELSE "none"

\* the if / else-if chain of _balance_to_root
Rotate(C, temp, node_pptr) ==
  LET rot == RotationChoice(C.h, temp)
  IN CASE rot = "LL" -> _rotate_LL(C, node_pptr)
       [] rot = "LR" -> _rotate_LR(C, node_pptr)
       [] rot = "RL" -> _rotate_RL(C, node_pptr)
       [] rot = "RR" -> _rotate_RR(C, node_pptr)
       [] OTHER -> C

\* faulty variant (C12 must reject it): the cached height of temp is not
\* recomputed before its balance factor is looked at
BalanceStepStaleHeight(C, temp, node_pptr) == Rotate(C, temp, node_pptr)

\* one iteration of the while loop of _balance_to_root, up to the rotation
BalanceStep(C, temp, node_pptr) ==
  Rotate(UpdateHeight(C, temp), temp, node_pptr)

\* the slot recomputed for the next ancestor at the end of the loop body
NextPptr(C, temp, node_pptr) ==
  IF temp = NULL THEN node_pptr
  ELSE IF C.h[temp].parent = NULL THEN ROOTPP
  ELSE IF temp = C.h[C.h[temp].parent].left THEN <<"left", C.h[temp].parent>>
  ELSE <<"right", C.h[temp].parent>>

RECURSIVE BalanceLoop(_, _, _)

\* temp = temp->__parent, the slot of the new temp, and the next iteration
BalanceUp(C, temp, node_pptr) ==
  BalanceLoop(C, C.h[temp].parent, NextPptr(C, C.h[temp].parent, node_pptr))

BalanceLoop(C, temp, node_pptr) ==
  IF temp = NULL THEN C
  ELSE BalanceUp(BalanceStep(C, temp, node_pptr), temp, node_pptr)

_balance_to_root(C, node_pptr) ==
  IF node_pptr = NULLPP \/ Deref(C, node_pptr) = NULL THEN C
  ELSE BalanceLoop(C, Deref(C, node_pptr), node_pptr)

(* ----------------------- insert / remove helpers ---------------------- *)

\* n = new _Node(data)
New(C, n, data) == [C EXCEPT !.h = Alloc(C.h, n, NewNode(data))]

\* *data_pptr = new _Node(data); (*data_pptr)->__parent = parent_ptr
LinkNew(C, data, parent_ptr, data_pptr) ==
  SetParent(Store(New(C, NewAddr(C.h), data), data_pptr, NewAddr(C.h)), NewAddr(C.h), parent_ptr)

_insert_aux(C, data) ==
  LET parent_data_pair == _search_place_aux(C, data)
      parent_ptr == parent_data_pair.parent
      data_pptr == parent_data_pair.pp
  IN IF Deref(C, data_pptr) # NULL THEN [ok |-> FALSE, C |-> C]
     ELSE [ok |-> TRUE,
           C |-> _balance_to_root(LinkNew(C, data, parent_ptr, data_pptr), data_pptr)]

\* faulty variant (C4 must reject it): the keys of the node and of its successor are not exchanged
SwapNothing(C, a, b) == C

_swap_nodes(C, a, b) ==
  IF a # NULLPP /\ Deref(C, a) # NULL /\ b # NULLPP /\ Deref(C, b) # NULL
  THEN LET na == Deref(C, a)
           nb == Deref(C, b)
       IN [C EXCEPT !.h[na].data = C.h[nb].data, !.h[nb].data = C.h[na].data]
  ELSE C

_get_node_pptr(C, node_ptr) ==
  IF node_ptr = NULL THEN NULLPP
  ELSE IF C.h[node_ptr].parent # NULL
       THEN IF C.h[C.h[node_ptr].parent].left = node_ptr
            THEN <<"left", C.h[node_ptr].parent>>
            ELSE <<"right", C.h[node_ptr].parent>>
  ELSE ROOTPP

RECURSIVE SuccessorWalk(_, _, _)

\* faulty variant (C16 must reject it): the right child is taken as the successor
\* without descending to its leftmost node
SuccessorIsRightChild(C, parent_ptr, node_pptr) == [parent |-> parent_ptr, pp |-> node_pptr]

\* the while loop of _remove_aux that descends to the in-order successor
SuccessorWalk(C, parent_ptr, node_pptr) ==
  IF C.h[Deref(C, node_pptr)].left # NULL
  THEN SuccessorWalk(C, Deref(C, node_pptr), <<"left", Deref(C, node_pptr)>>)
  ELSE [parent |-> parent_ptr, pp |-> node_pptr]

\* delete n
Release(C, n) == [C EXCEPT !.h = Delete(C.h, n)]

\* (*node_pptr)->__parent = (*node_pptr)->__parent->__parent, when *node_pptr is not null
ParentToGrandparent(C, node_pptr) ==
  IF Deref(C, node_pptr) # NULL
  THEN [C EXCEPT !.h[Deref(C, node_pptr)].parent = C.h[C.h[Deref(C, node_pptr)].parent].parent]
  ELSE C

\* *node_pptr = (*node_pptr)->__right
SpliceRight(C, node_pptr) == Store(C, node_pptr, C.h[Deref(C, node_pptr)].right)

\* *node_pptr = (*node_pptr)->__left
SpliceLeft(C, node_pptr) == Store(C, node_pptr, C.h[Deref(C, node_pptr)].left)

\* the tail both branches of _remove_aux share: the slot of parent_ptr is taken,
\* to_delete is deleted and the walk to the root starts at that slot
FinishRemove(C, parent_ptr, to_delete) ==
  _balance_to_root(Release(C, to_delete), _get_node_pptr(C, parent_ptr))

\* the branch of _remove_aux for a node with both children
RemoveTwoChildren(C, data_pptr, w) ==
  FinishRemove(ParentToGrandparent(SpliceRight(_swap_nodes(C, w.pp, data_pptr), w.pp), w.pp),
               w.parent, Deref(C, w.pp))

\* the branch of _remove_aux for a node with at most one child
RemoveOneChild(C, parent_ptr, node_pptr) ==
  FinishRemove(SetParent(IF C.h[Deref(C, node_pptr)].left # NULL
                         THEN SpliceLeft(C, node_pptr)
                         ELSE SpliceRight(C, node_pptr),
                         IF C.h[Deref(C, node_pptr)].left # NULL
                         THEN C.h[Deref(C, node_pptr)].left
                         ELSE C.h[Deref(C, node_pptr)].right,
                         parent_ptr),
               parent_ptr, Deref(C, node_pptr))

_remove_aux(C, data) ==
  LET parent_data_pair == _search_place_aux(C, data)
      data_pptr == parent_data_pair.pp
      target == Deref(C, data_pptr)
  IN IF target = NULL THEN [ok |-> FALSE, C |-> C]
     ELSE IF C.h[target].left # NULL /\ C.h[target].right # NULL
     THEN [ok |-> TRUE,
           C |-> RemoveTwoChildren(C, data_pptr, SuccessorWalk(C, target, <<"right", target>>))]
     ELSE [ok |-> TRUE, C |-> RemoveOneChild(C, parent_data_pair.parent, data_pptr)]

\* _search_aux: the node found, NULL when it throws data_not_found
_search_aux(C, data) == Deref(C, _search_place_aux(C, data).pp)

RECURSIVE _find_min_walk(_, _)
_find_min_walk(h, temp) ==
  IF h[temp].left # NULL THEN _find_min_walk(h, h[temp].left) ELSE temp

RECURSIVE _find_max_walk(_, _)
_find_max_walk(h, temp) ==
  IF h[temp].right # NULL THEN _find_max_walk(h, h[temp].right) ELSE temp

\* faulty variant (C21 must reject it): the loop "while (temp->__left)" is not run,
\* and the root is returned
_find_min_no_walk(C) == C.root

\* _find_min / _find_max: NULL stands for the data_not_found they throw on an empty tree
_find_min(C) == IF C.root = NULL THEN NULL ELSE _find_min_walk(C.h, C.root)

_find_max(C) == IF C.root = NULL THEN NULL ELSE _find_max_walk(C.h, C.root)

(* ----------------------- iterator (4.5) ------------------------------- *)

\* marks a walk that never ends: it has taken more steps than there are nodes
DIVERGES == -1

Fuel(h) == Cardinality(DOMAIN h) + 1

RECURSIVE LeftMostWalk(_, _, _)
LeftMostWalk(h, node, fuel) ==
  IF node = NULL THEN NULL
  ELSE IF h[node].left = NULL THEN node
  ELSE IF fuel = 0 THEN DIVERGES
  ELSE LeftMostWalk(h, h[node].left, fuel - 1)

_get_left_most_node(h, node) == LeftMostWalk(h, node, Fuel(h))

\* the while loop of _iterator::operator++ that climbs while arriving from the right
RECURSIVE ClimbWalk(_, _, _, _)
ClimbWalk(h, current, p, fuel) ==
  IF p # NULL /\ current = h[p].right
  THEN IF fuel = 0 THEN DIVERGES ELSE ClimbWalk(h, p, h[p].parent, fuel - 1)
  ELSE p

\* faulty variant (C1 must reject it): without a right child the cursor steps to the parent, whichever side
\* it comes from
IncrementToParent(h, current) ==
  IF h[current].right # NULL
  THEN _get_left_most_node(h, h[current].right)
  ELSE h[current].parent

\* _iterator::operator++
Increment(h, current) ==
  IF h[current].right # NULL
  THEN _get_left_most_node(h, h[current].right)
  ELSE ClimbWalk(h, current, h[current].parent, Fuel(h))

RECURSIVE IterateFrom(_, _, _)
IterateFrom(h, current, fuel) ==
  IF current = NULL THEN <<>>
  ELSE IF current = DIVERGES \/ fuel = 0 THEN <<DIVERGES>>
  ELSE <<current>> \o IterateFrom(h, Increment(h, current), fuel - 1)

\* the nodes visited by for (it = begin(); it != end(); ++it); a last element
\* DIVERGES says that the loop does not end
IterNodes(h, root) == IterateFrom(h, _get_left_most_node(h, root), Fuel(h))

\* the keys the loop yields through operator*
IterKeys(h, root) ==
  LET ns == IterNodes(h, root)
  IN [i \in 1..Len(ns) |-> IF ns[i] = DIVERGES THEN DIVERGES ELSE h[ns[i]].data]

(* ----------------------- destroy -------------------------------------- *)

\* delete *root; *root = nullptr, with the amounts of the two recursive calls added up
DestroyNode(R, root, amount_left) ==
  [C |-> Store(Release(R.C, Deref(R.C, root)), root, NULL),
   amount |-> 1 + amount_left + R.amount]

RECURSIVE _destroy_tree_rec(_, _)

\* the call on the right subtree, after the one on the left subtree returned L
DestroyRight(L, root) ==
  DestroyNode(_destroy_tree_rec(L.C, <<"right", Deref(L.C, root)>>), root, L.amount)

_destroy_tree_rec(C, root) ==
  IF Deref(C, root) = NULL THEN [C |-> C, amount |-> 0]
  ELSE DestroyRight(_destroy_tree_rec(C, <<"left", Deref(C, root)>>), root)

(* ----------------------- union builder (4.6) -------------------------- *)

\* the three loops of unite over two cursors it1, it2 (NULL is end()); the result
\* is the array data_ptr / node_ptr, of the nodes whose element was taken
RECURSIVE MergeWalk(_, _, _)

\* faulty variant (C7 must reject it): on equal keys only the first cursor advances, so the element of the
\* second tree is taken as well
MergeKeepingDuplicates(h, it1, it2) ==
  IF it1 # NULL /\ it2 # NULL
  THEN IF less(h[it2].data, h[it1].data)
       THEN <<it2>> \o MergeWalk(h, it1, Increment(h, it2))
       ELSE <<it1>> \o MergeWalk(h, Increment(h, it1), it2)
  ELSE IF it1 # NULL THEN <<it1>> \o MergeWalk(h, Increment(h, it1), it2)
  ELSE IF it2 # NULL THEN <<it2>> \o MergeWalk(h, it1, Increment(h, it2))
  ELSE <<>>

MergeWalk(h, it1, it2) ==
  IF it1 # NULL /\ it2 # NULL
  THEN IF less(h[it1].data, h[it2].data)
       THEN <<it1>> \o MergeWalk(h, Increment(h, it1), it2)
       ELSE IF less(h[it2].data, h[it1].data)
       THEN <<it2>> \o MergeWalk(h, it1, Increment(h, it2))
       ELSE <<it1>> \o MergeWalk(h, Increment(h, it1), Increment(h, it2))
  ELSE IF it1 # NULL THEN <<it1>> \o MergeWalk(h, Increment(h, it1), it2)
  ELSE IF it2 # NULL THEN <<it2>> \o MergeWalk(h, it1, Increment(h, it2))
  ELSE <<>>

\* static_cast<size_t>(std::log2(size)) for size >= 1
RECURSIVE Log2Floor(_)
Log2Floor(size) == IF size < 2 THEN 0 ELSE 1 + Log2Floor(size \div 2)

\* 1 << k
Shl1(k) == 2 ^ k

\* faulty variant (C22 must reject it): the subtree root is the middle element
LeftSizeMiddle(size) == size \div 2

\* left_size as _create_almost_full_tree computes it, for size >= 2
LeftSize(size) ==
  LET tree_height == Log2Floor(size)
      tree_leaves == size - 2 * Shl1(tree_height - 1) + 1
  IN Shl1(tree_height - 1) - 1 + Min2(tree_leaves, Shl1(tree_height - 1))

\* node->__left = child (or node->__right), and when child is not null
\* child->__parent = node; node_height += child->__height
AttachLeft(B, node) ==
  [h |-> IF B.node # NULL
         THEN [B.h EXCEPT ![node].left = B.node, ![B.node].parent = node]
         ELSE [B.h EXCEPT ![node].left = NULL],
   node |-> node,
   node_height |-> IF B.node # NULL THEN B.h[B.node].height ELSE 0]

AttachRight(B, node, node_height) ==
  [h |-> IF B.node # NULL
         THEN [B.h EXCEPT ![node].right = B.node, ![B.node].parent = node,
                          ![node].height = node_height + B.h[B.node].height]
         ELSE [B.h EXCEPT ![node].right = NULL, ![node].height = node_height],
   node |-> node]

RECURSIVE _create_almost_full_tree_in_place(_, _, _)

CreateRightInPlace(L, node_ptr, size) ==
  AttachRight(_create_almost_full_tree_in_place(L.h, SubSeq(node_ptr, LeftSize(size) + 2, size),
                                                size - LeftSize(size) - 1),
              L.node, L.node_height)

CreateLeftInPlace(h, n, node_ptr, size) ==
  CreateRightInPlace(
    AttachLeft(_create_almost_full_tree_in_place(h, SubSeq(node_ptr, 1, LeftSize(size)),
                                                 LeftSize(size)), n),
    node_ptr, size)

\* for size = 1 the node returned is new _Node(*(node_ptr[0])): the implicit copy
\* constructor copies every field of the node, links and height included
_create_almost_full_tree_in_place(h, node_ptr, size) ==
  IF size = 0 THEN [h |-> h, node |-> NULL]
  ELSE IF size = 1
  THEN [h |-> Alloc(h, NewAddr(h), h[node_ptr[1]]), node |-> NewAddr(h)]
  ELSE CreateLeftInPlace(h, node_ptr[LeftSize(size) + 1], node_ptr, size)

RECURSIVE _create_almost_full_tree(_, _, _)

\* the right subtree and the height, after the left subtree was attached in L
CreateRight(L, data_ptr, size) ==
  AttachRight(_create_almost_full_tree(L.h, SubSeq(data_ptr, LeftSize(size) + 2, size),
                                       size - LeftSize(size) - 1),
              L.node, L.node_height)

\* the left subtree of the node n just allocated in h
CreateLeft(h, n, data_ptr, size) ==
  CreateRight(AttachLeft(_create_almost_full_tree(h, SubSeq(data_ptr, 1, LeftSize(size)),
                                                  LeftSize(size)), n),
              data_ptr, size)

\* faulty variant (C8 must reject it): the copying builder reuses the nodes the array points to, as the
\* in-place builder does
CreateReusingNodes(h, data_ptr, size) == _create_almost_full_tree_in_place(h, data_ptr, size)

\* data_ptr holds the nodes whose elements the array points to; the result is the
\* heap after the call and the node returned
_create_almost_full_tree(h, data_ptr, size) ==
  IF size = 0 THEN [h |-> h, node |-> NULL]
  ELSE IF size = 1
  THEN [h |-> Alloc(h, NewAddr(h), NewNode(h[data_ptr[1]].data)), node |-> NewAddr(h)]
  ELSE CreateLeft(Alloc(h, NewAddr(h), NewNode(h[data_ptr[LeftSize(size) + 1]].data)),
                  NewAddr(h), data_ptr, size)

(* ----------------------- the tree object ------------------------------ *)

TreeIds == {"t1", "t2", "u"}

\* the trees handed to unite; u is where its result is constructed
Inputs == {"t1", "t2"}

\* tree::tree()
EmptyTree == [root |-> NULL, min |-> NULL, max |-> NULL, size |-> 0]

Ctx(t) == [h |-> heap, root |-> trees[t].root]

\* the last call made: the operation, the tree it was made on and how it ended
\* ("ok", or the exception thrown, or "assertion_failed")
Result(op, t, res) == [op |-> op, tree |-> t, res |-> res]

\* the process has not been ended by a failed assert
Running == last.res # "assertion_failed"

\* tree::empty() under AVL_TREE_TEST: FALSE when one of its asserts fails
EmptyAssertsHold(root, size) == (root = NULL) <=> (size = 0)

Init ==
  /\ heap = << >>
  /\ trees = [t \in TreeIds |-> EmptyTree]
  /\ present = [t \in TreeIds |-> {}]
  /\ last = Result("init", "t1", "ok")

\* faulty variant (C5 must reject it): __size++ is done before the result of _insert_aux is looked at
InsertCountingFirst(t, data, op) ==
  LET r == _insert_aux(Ctx(t), data)
  IN /\ heap' = r.C.h
     /\ IF r.ok
        THEN /\ trees' = [trees EXCEPT ![t] = [root |-> r.C.root,
                                               min |-> _find_min(r.C),
                                               max |-> _find_max(r.C),
                                               size |-> trees[t].size + 1]]
             /\ present' = [present EXCEPT ![t] = @ \cup {data}]
             /\ last' = Result(op, t, "ok")
        ELSE /\ trees' = [trees EXCEPT ![t].root = r.C.root, ![t].size = @ + 1]
             /\ present' = present
             /\ last' = Result(op, t, "data_already_exists")

\* tree::insert; op names the call in last
InsertOp(t, data, op) ==
  LET r == _insert_aux(Ctx(t), data)
  IN /\ heap' = r.C.h
     /\ IF r.ok
        THEN /\ trees' = [trees EXCEPT ![t] = [root |-> r.C.root,
                                               min |-> _find_min(r.C),
                                               max |-> _find_max(r.C),
                                               size |-> trees[t].size + 1]]
             /\ present' = [present EXCEPT ![t] = @ \cup {data}]
             /\ last' = Result(op, t, "ok")
        ELSE /\ trees' = [trees EXCEPT ![t].root = r.C.root]
             /\ present' = present
             /\ last' = Result(op, t, "data_already_exists")

\* tree::insert on the members S = [C, min, max, size] of a tree; a failing call
\* leaves them as they are
insert(S, data) ==
  LET r == _insert_aux(S.C, data)
  IN IF r.ok
     THEN [C |-> r.C, min |-> _find_min(r.C), max |-> _find_max(r.C), size |-> S.size + 1]
     ELSE [S EXCEPT !.C = r.C]

\* "for (i = from; i <= Len(list); i++) t.insert(list[i])"
RECURSIVE InsertEach(_, _, _)
InsertEach(S, list, from) ==
  IF from > Len(list) THEN S ELSE InsertEach(insert(S, list[from]), list, from + 1)

\* the members of tree() when the heap is h
NewTree(h) == [C |-> [h |-> h, root |-> NULL], min |-> NULL, max |-> NULL, size |-> 0]

\* faulty variant (C6 must reject it): __size-- is done before the result of _remove_aux is looked at
RemoveCountingFirst(t, data) ==
  LET r == _remove_aux(Ctx(t), data)
  IN IF r.ok
     THEN /\ heap' = r.C.h
          /\ trees' = [trees EXCEPT ![t] =
                IF r.C.root = NULL
                THEN [root |-> r.C.root, min |-> NULL, max |-> NULL, size |-> trees[t].size - 1]
                ELSE [root |-> r.C.root, min |-> _find_min(r.C),
                      max |-> _find_max(r.C), size |-> trees[t].size - 1]]
          /\ present' = [present EXCEPT ![t] = @ \ {data}]
          /\ last' = Result("remove", t, "ok")
     ELSE /\ heap' = r.C.h
          /\ trees' = [trees EXCEPT ![t].size = @ - 1]
          /\ present' = present
          /\ last' = Result("remove", t, "data_not_found")

\* tree::remove
RemoveOp(t, data) ==
  LET r == _remove_aux(Ctx(t), data)
      new_size == trees[t].size - 1
  IN /\ heap' = r.C.h
     /\ IF r.ok
        THEN IF ~EmptyAssertsHold(r.C.root, new_size)
             THEN /\ trees' = [trees EXCEPT ![t].root = r.C.root, ![t].size = new_size]
                  /\ present' = [present EXCEPT ![t] = @ \ {data}]
                  /\ last' = Result("remove", t, "assertion_failed")
             ELSE /\ trees' = [trees EXCEPT ![t] =
                        IF r.C.root = NULL
                        THEN [root |-> r.C.root, min |-> NULL, max |-> NULL, size |-> new_size]
                        ELSE [root |-> r.C.root, min |-> _find_min(r.C),
                              max |-> _find_max(r.C), size |-> new_size]]
                  /\ present' = [present EXCEPT ![t] = @ \ {data}]
                  /\ last' = Result("remove", t, "ok")
        ELSE /\ trees' = [trees EXCEPT ![t].root = r.C.root]
             /\ present' = present
             /\ last' = Result("remove", t, "data_not_found")

\* tree::search
SearchOp(t, data) ==
  LET ptr == _search_aux(Ctx(t), data)
  IN /\ UNCHANGED <<heap, trees, present>>
     /\ last' = IF ptr = NULL
                THEN Result("search", t, "data_not_found")
                ELSE Result("search", t, "ok")

\* the loop of the list constructor from element i on; ok is FALSE when
\* _insert_aux failed and the tree was destroyed
RECURSIVE CtorLoop(_, _, _)

\* faulty variant (C13 must reject it): bad_input is thrown without destroying
\* what was inserted
CtorStepLeaking(r, list, i) ==
  IF r.ok THEN CtorLoop(r.C, list, i + 1)
  ELSE [ok |-> FALSE, C |-> r.C]

CtorStep(r, list, i) ==
  IF r.ok THEN CtorLoop(r.C, list, i + 1)
  ELSE [ok |-> FALSE, C |-> _destroy_tree_rec(r.C, ROOTPP).C]

CtorLoop(C, list, i) ==
  IF i > Len(list) THEN [ok |-> TRUE, C |-> C]
  ELSE CtorStep(_insert_aux(C, list[i]), list, i)

\* the slot t holds no tree: its state is that of this-> when a constructor starts
Pristine(t) == trees[t] = EmptyTree

Set(list) == {list[i] : i \in 1..Len(list)}

\* faulty variant (C14 must reject it): __min_element and __max_element are
\* left as the member initialisers set them
ConstructedWithoutMinMax(C, n) == [root |-> C.root, min |-> NULL, max |-> NULL, size |-> n]

\* the members of the constructed tree after the loop: __size = list.size(),
\* __min_element = _find_min(), __max_element = _find_max()
Constructed(C, n) == [root |-> C.root, min |-> _find_min(C), max |-> _find_max(C), size |-> n]

\* tree::tree(std::initializer_list<Data_t> list), constructing in the slot t.  When
\* the constructor throws no object exists afterwards and the slot holds no tree.
ListCtorOp(t, list) ==
  LET r == CtorLoop([h |-> heap, root |-> NULL], list, 1)
  IN /\ heap' = r.C.h
     /\ IF ~r.ok
        THEN /\ trees' = [trees EXCEPT ![t] = [EmptyTree EXCEPT !.root = r.C.root]]
             /\ present' = present
             /\ last' = Result("list_ctor", t, "bad_input")
        ELSE IF r.C.root = NULL
        THEN /\ trees' = [trees EXCEPT ![t] = [EmptyTree EXCEPT !.size = Len(list)]]
             /\ present' = present
             /\ last' = Result("list_ctor", t, "data_not_found")
        ELSE /\ trees' = [trees EXCEPT ![t] = Constructed(r.C, Len(list))]
             /\ present' = [present EXCEPT ![t] = Set(list)]
             /\ last' = Result("list_ctor", t, "ok")

\* tree::clear, that is _clear_aux
ClearOp(t) ==
  LET R == _destroy_tree_rec(Ctx(t), ROOTPP)
  IN /\ heap' = R.C.h
     /\ trees' = [trees EXCEPT ![t].root = R.C.root, ![t].size = @ - R.amount]
     /\ present' = [present EXCEPT ![t] = {}]
     /\ last' = Result("clear", t, IF trees[t].size - R.amount = 0
                                   THEN "ok" ELSE "assertion_failed")

\* faulty variant (C19 must reject it): the members are copied to the new tree and
\* the source keeps them
MoveCtorKeepingSource(t, other) ==
  /\ heap' = heap
  /\ trees' = [trees EXCEPT ![t] = trees[other]]
  /\ present' = [present EXCEPT ![t] = present[other]]
  /\ last' = Result("move_ctor", t, "ok")

\* tree::tree(tree &&other), constructing in the slot t from other
MoveCtorOp(t, other) ==
  /\ heap' = heap
  /\ trees' = [trees EXCEPT ![t] = trees[other], ![other] = EmptyTree]
  /\ present' = [present EXCEPT ![t] = present[other], ![other] = {}]
  /\ last' = Result("move_ctor", t, "ok")

(* ----------------------- deep copy ------------------------------------ *)

\* "if (node->__left) node->__left->__parent = root" and the same on the right:
\* the parent written into the copied child is root, the node being copied
SetCopiedParent(h, child, root) ==
  IF child = NULL THEN h ELSE [h EXCEPT ![child].parent = root]

RECURSIVE _copy_tree_rec(_, _)

\* node->__right, its parent link and node->__height, after the right subtree
\* was copied in R
CopyFinish(R, node, root) ==
  [h |-> [SetCopiedParent(R.h, R.node, root) EXCEPT ![node].right = R.node,
                                                    ![node].height = R.h[root].height],
   node |-> node]

\* the heap after node->__left and its parent link were set from the copy L
CopiedLeft(L, node, root) ==
  [SetCopiedParent(L.h, L.node, root) EXCEPT ![node].left = L.node]

CopyRight(h, node, root) == CopyFinish(_copy_tree_rec(h, h[root].right), node, root)

\* the node just allocated in h for the copy of root
CopyNode(h, node, root) ==
  CopyRight(CopiedLeft(_copy_tree_rec(h, h[root].left), node, root), node, root)

\* _copy_tree_rec(_Node *root), reading &((*root)->__left) as root->__left; the
\* result is the heap after the call and the node returned
_copy_tree_rec(h, root) ==
  IF root = NULL THEN [h |-> h, node |-> NULL]
  ELSE CopyNode(Alloc(h, NewAddr(h), NewNode(h[root].data)), NewAddr(h), root)

\* the members after __root, __size, __max_element, __min_element were assigned
Copied(K, size) ==
  [root |-> K.node, min |-> _find_min([h |-> K.h, root |-> K.node]),
   max |-> _find_max([h |-> K.h, root |-> K.node]), size |-> size]

\* tree::tree(tree &other), constructing in the slot t: _find_max throws
\* data_not_found when the copied root is null, and then no object exists
CopyCtorOp(t, other) ==
  LET K == _copy_tree_rec(heap, trees[other].root)
  IN /\ heap' = K.h
     /\ IF K.node = NULL
        THEN /\ trees' = [trees EXCEPT ![t] = [EmptyTree EXCEPT !.size = trees[other].size]]
             /\ present' = present
             /\ last' = Result("copy_ctor", t, "data_not_found")
        ELSE /\ trees' = [trees EXCEPT ![t] = Copied(K, trees[other].size)]
             /\ present' = [present EXCEPT ![t] = present[other]]
             /\ last' = Result("copy_ctor", t, "ok")

\* this->clear() of operator=, run on the heap K.h that holds the new copy
ClearedForAssign(K, t) == _destroy_tree_rec([h |-> K.h, root |-> trees[t].root], ROOTPP)

\* the members of *this and the result of operator= after clear() returned R
AssignAfterClear(K, R, t, other) ==
  IF trees[t].size - R.amount # 0
  THEN [tree |-> [trees[t] EXCEPT !.root = R.C.root, !.size = @ - R.amount],
        res |-> "assertion_failed"]
  ELSE IF K.node = NULL
  THEN [tree |-> [trees[t] EXCEPT !.root = NULL, !.size = trees[other].size],
        res |-> "data_not_found"]
  ELSE [tree |-> Copied([h |-> R.C.h, node |-> K.node], trees[other].size), res |-> "ok"]

\* tree::operator=(const tree &other) with this = t, for this != &other
CopyAssignOp(t, other) ==
  LET K == _copy_tree_rec(heap, trees[other].root)
      R == ClearedForAssign(K, t)
      A == AssignAfterClear(K, R, t, other)
  IN /\ heap' = R.C.h
     /\ trees' = [trees EXCEPT ![t] = A.tree]
     /\ present' = [present EXCEPT ![t] = IF A.res = "ok" THEN present[other] ELSE {}]
     /\ last' = Result("copy_assign", t, A.res)

\* tree::begin(): the cursor on the leftmost node
Begin(h, t) == _get_left_most_node(h, trees[t].root)

\* united_tree after set_root, set_size, set_max_element, set_min_element
United(B, index) ==
  [root |-> B.node, min |-> _find_min([h |-> B.h, root |-> B.node]),
   max |-> _find_max([h |-> B.h, root |-> B.node]), size |-> index]

\* tree::unite(const tree &t1, const tree &t2), the result constructed in the slot u
UniteCopyOp(t1, t2, u) ==
  LET data_ptr == MergeWalk(heap, Begin(heap, t1), Begin(heap, t2))
      B == _create_almost_full_tree(heap, data_ptr, Len(data_ptr))
  IN /\ IF trees[t1].size + trees[t2].size > 0
        THEN /\ heap' = B.h
             /\ trees' = [trees EXCEPT ![u] = United(B, Len(data_ptr))]
        ELSE /\ heap' = heap
             /\ trees' = [trees EXCEPT ![u] = EmptyTree]
     /\ present' = [present EXCEPT ![u] = present[t1] \cup present[t2]]
     /\ last' = Result("unite_copy", u, "ok")

\* tree::unite(tree &&t1, tree &&t2), the result constructed in the slot u
UniteMoveOp(t1, t2, u) ==
  LET node_ptr == MergeWalk(heap, Begin(heap, t1), Begin(heap, t2))
      B == _create_almost_full_tree_in_place(heap, node_ptr, Len(node_ptr))
  IN /\ IF trees[t1].size + trees[t2].size > 0
        THEN /\ heap' = B.h
             /\ trees' = [trees EXCEPT ![t1] = EmptyTree, ![t2] = EmptyTree,
                                       ![u] = United(B, Len(node_ptr))]
        ELSE /\ heap' = heap
             /\ trees' = [trees EXCEPT ![u] = EmptyTree]
     /\ present' = [present EXCEPT ![t1] = {}, ![t2] = {},
                                   ![u] = present[t1] \cup present[t2]]
     /\ last' = Result("unite_move", u, "ok")

\* the calls explored on t1 take their keys from Keys while t1 holds keys of Keys only
Insert == \E data \in Keys : Running /\ present["t1"] \subseteq Keys /\ InsertOp("t1", data, "insert")

Remove == \E data \in Keys : Running /\ present["t1"] \subseteq Keys /\ RemoveOp("t1", data)

Search == \E data \in Keys : Running /\ present["t1"] \subseteq Keys /\ SearchOp("t1", data)

\* the run "for (i = 0; i <= AscMax; i++) t1.insert(i)" on a new tree: TRUE while
\* every call so far belongs to it
Ascending == last.op \in {"init", "insert_ascending"}

InsertAscending ==
  /\ Running /\ Ascending
  /\ trees["t1"].size <= AscMax
  /\ InsertOp("t1", trees["t1"].size, "insert_ascending")

Next == Insert \/ Remove \/ Search \/ InsertAscending

Spec == Init /\ [][Next]_vars

(* --------- the specification of the union builder and its inputs ------ *)

\* unite has returned its result in the slot u
United_u == last.op \in {"unite_copy", "unite_move"}

ListCtor ==
  \E t \in Inputs, list \in Lists :
    Running /\ ~United_u /\ Pristine(t) /\ ListCtorOp(t, list)

Clear == \E t \in Inputs : Running /\ ~United_u /\ ClearOp(t)

MoveCtor ==
  \E t \in Inputs, other \in Inputs :
    Running /\ ~United_u /\ t # other /\ Pristine(t) /\ MoveCtorOp(t, other)

\* t1 and t2 range over the same trees, so the arguments are taken in one order;
\* the same tree is passed twice to the copying unite only
UniteCopy ==
  \/ Running /\ ~United_u /\ UniteCopyOp("t1", "t2", "u")
  \/ Running /\ ~United_u /\ UniteCopyOp("t1", "t1", "u")

UniteMove == Running /\ ~United_u /\ UniteMoveOp("t1", "t2", "u")

NextUnite == ListCtor \/ Clear \/ MoveCtor \/ UniteCopy \/ UniteMove

SpecUnite == Init /\ [][NextUnite]_vars

(* ------- the specification of calls on a tree that unite returned ------ *)

\* a call has been made on, or has returned, the tree in the slot u
OnUnited == last.tree = "u"

\* "for (i = 0; i <= MaxKey; i++) t1.insert(i)", as main does before it unites
Grow ==
  /\ Running /\ ~OnUnited
  /\ trees["t1"].size <= MaxKey
  /\ InsertOp("t1", trees["t1"].size, "insert_ascending")

\* unite(t1, t1) and unite(t1, t2) with t2 empty, as main calls them
UniteRun ==
  \/ Running /\ ~OnUnited /\ UniteCopyOp("t1", "t1", "u")
  \/ Running /\ ~OnUnited /\ UniteCopyOp("t1", "t2", "u")

InsertUnited == \E data \in Keys : Running /\ OnUnited /\ InsertOp("u", data, "insert")

RemoveUnited == \E data \in Keys : Running /\ OnUnited /\ RemoveOp("u", data)

NextAfterUnite == Grow \/ UniteRun \/ InsertUnited \/ RemoveUnited

SpecAfterUnite == Init /\ [][NextAfterUnite]_vars

(* ------- the specification of emptying a tree through its root ------- *)

\* no remove has been called yet
Filling == last.op \in {"init", "insert"}

Fill == \E data \in Keys : Running /\ Filling /\ InsertOp("t1", data, "insert")

\* "while (!t1.empty()) t1.remove(<the key at the root>)": once the loop has begun
\* nothing else is called, and the loop goes on while the tree has a root
RemoveRoot ==
  /\ Running
  /\ trees["t1"].root # NULL
  /\ RemoveOp("t1", heap[trees["t1"].root].data)

NextDrain == Fill \/ RemoveRoot

\* remove() always returns or throws, so a call of RemoveRoot is possible exactly
\* when the loop condition holds
CanDrain == Running /\ trees["t1"].root # NULL

\* the call of remove() as seen from the caller before it returns: possible whenever
\* CanDrain holds and never a step of NextDrain (no operation leaves "called"), so
\* that the fair action below is enabled exactly when CanDrain holds and its only
\* steps in a behaviour of NextDrain are those of RemoveRoot
RemoveCalled ==
  /\ CanDrain
  /\ last' = Result("remove", "t1", "called")
  /\ UNCHANGED <<heap, trees, present>>

\* the loop does not stop while the tree has a root
SpecDrain == Init /\ [][NextDrain]_vars /\ WF_vars(RemoveCalled \/ RemoveRoot)

(* ------------- the specification of copying a tree ------------------- *)

\* t1 is filled, then copied into t2 by the copy constructor; afterwards t2 is
\* assigned from t1 again and keys are removed from the source t1
CopyCtor == Running /\ Filling /\ Pristine("t2") /\ CopyCtorOp("t2", "t1")

\* a copy has been made
HasCopy == last.op \in {"copy_ctor", "copy_assign", "remove"}

CopyAssign == Running /\ HasCopy /\ CopyAssignOp("t2", "t1")

RemoveSource == \E data \in Keys : Running /\ HasCopy /\ RemoveOp("t1", data)

NextCopy == Fill \/ CopyCtor \/ CopyAssign \/ RemoveSource

SpecCopy == Init /\ [][NextCopy]_vars

(* ---- the specification of the cached min and max under every operation ---- *)

\* t1 is built by insert and remove calls, t2 by the list constructor, then unite
\* is called on them, and then one insert or remove is called on the result of the
\* copying unite (the result of the consuming unite is left alone: its links are
\* those C9 describes, and a call on it need not return)
BuildingFirst == last.tree = "t1" /\ last.op \in {"init", "insert", "remove"}

InsertFirst == \E data \in UKeys : Running /\ BuildingFirst /\ InsertOp("t1", data, "insert")

RemoveFirst == \E data \in UKeys : Running /\ BuildingFirst /\ RemoveOp("t1", data)

ListCtorSecond ==
  \E list \in Lists :
    Running /\ ~OnUnited /\ Pristine("t2") /\ ListCtorOp("t2", list)

UniteBuilt ==
  \/ Running /\ ~OnUnited /\ UniteCopyOp("t1", "t2", "u")
  \/ Running /\ ~OnUnited /\ UniteMoveOp("t1", "t2", "u")

InsertResult ==
  \E data \in Keys : Running /\ last.op = "unite_copy" /\ InsertOp("u", data, "insert")

RemoveResult ==
  \E data \in Keys : Running /\ last.op = "unite_copy" /\ RemoveOp("u", data)

NextMembers ==
  InsertFirst \/ RemoveFirst \/ ListCtorSecond \/ UniteBuilt \/ InsertResult \/ RemoveResult

SpecMembers == Init /\ [][NextMembers]_vars

(* ------- the specification of the builder on ascending arrays -------- *)

\* t1 receives increasing keys of 0..AscMax, so that it holds any subset of them,
\* and unite(t1, t1) hands the array of its keys to _create_almost_full_tree
Increasing == last.op \in {"init", "insert_increasing"}

InsertIncreasing ==
  \E data \in 0..AscMax :
    /\ Running /\ Increasing
    /\ \A k \in present["t1"] : less(k, data)
    /\ InsertOp("t1", data, "insert_increasing")

BuildFromArray == Running /\ Increasing /\ UniteCopyOp("t1", "t1", "u")

NextBuilder == InsertIncreasing \/ BuildFromArray

SpecBuilder == Init /\ [][NextBuilder]_vars

(* ----------------------- what the claims observe ---------------------- *)

\* _get_tree_height_rec; on a structure with a cycle the recursion never returns,
\* and the value here exceeds the number of nodes
RECURSIVE HeightWalk(_, _, _)
HeightWalk(h, node, fuel) ==
  IF node = NULL THEN -1
  ELSE IF fuel = 0 THEN 0
  ELSE 1 + Max2(HeightWalk(h, h[node].left, fuel - 1), HeightWalk(h, h[node].right, fuel - 1))

_get_tree_height_rec(h, node) == HeightWalk(h, node, Fuel(h))

\* tree::height()
height(h, root) == IF root # NULL THEN _get_tree_height_from_children(h, root) ELSE -1

\* the nodes reachable from root over __left and __right
RECURSIVE ReachWalk(_, _, _)
ReachWalk(h, frontier, seen) ==
  IF frontier = {} THEN seen
  ELSE ReachWalk(h,
                 ({h[n].left : n \in frontier} \cup {h[n].right : n \in frontier})
                   \ ({NULL} \cup seen \cup frontier),
                 seen \cup frontier)

Reach(h, root) == IF root = NULL THEN {} ELSE ReachWalk(h, {root}, {})

\* the cached height of a child, -1 for an absent child
CachedHeight(h, n) == IF n = NULL THEN -1 ELSE h[n].height

RECURSIVE SortedSeq(_)
SortedSeq(S) ==
  IF S = {} THEN <<>>
  ELSE LET m == CHOOSE x \in S : \A y \in S : x <= y
       IN <<m>> \o SortedSeq(S \ {m})

Range(seq) == {seq[i] : i \in 1..Len(seq)}

\* the loop from begin() to end() ends and each key follows the one before it under less
StrictlyIncreasing(ks) ==
  \A i \in 1..Len(ks) : ks[i] # DIVERGES /\ (i > 1 => less(ks[i - 1], ks[i]))

\* every node of the tree has subtrees whose actual heights differ by at most 1
Balanced(h, root) ==
  \A n \in Reach(h, root) :
    LET d == _get_tree_height_rec(h, h[n].left) - _get_tree_height_rec(h, h[n].right)
    IN -1 <= d /\ d <= 1

\* every node's cached height is 1 + the larger cached height of its children
HeightsCorrect(h, root) ==
  \A n \in Reach(h, root) :
    h[n].height = 1 + Max2(CachedHeight(h, h[n].left), CachedHeight(h, h[n].right))

T1 == trees["t1"]

U == trees["u"]

(* ------------------------------- claims ------------------------------- *)

\* C1: after any sequence of insert and remove calls on an empty tree, successful
\* or failing, the iteration from begin() to end() ends and yields a strictly
\* increasing sequence of keys.
C1_IterationStrictlyIncreasing == StrictlyIncreasing(IterKeys(heap, T1.root))

C1_Witness ==
  /\ last.op = "remove" /\ last.res = "ok"
  /\ Len(IterKeys(heap, T1.root)) >= 3
  /\ heap[T1.root].left # NULL /\ heap[T1.root].right # NULL

\* C2: in every state reached by insert and remove calls on an empty tree the two
\* subtrees of every node differ in actual height by at most 1, and during the run
\* that inserts 0, 1, ..., 9 in this order the tree is never higher than 3.
C2_BalancedAtEveryStep ==
  /\ Balanced(heap, T1.root)
  /\ last.op = "insert_ascending" => _get_tree_height_rec(heap, T1.root) <= 3

C2_Witness ==
  /\ last.op = "insert_ascending"
  /\ T1.size = 10
  /\ _get_tree_height_rec(heap, T1.root) = 3

\* C3: in every state the public operations reach, size() of every tree is the
\* number of keys the iteration from begin() to end() yields and the number of
\* nodes reachable from the root, and the root is absent exactly when size() is 0.
C3_SizeIsNodeCount ==
  \A t \in TreeIds :
    /\ DIVERGES \notin Range(IterKeys(heap, trees[t].root))
    /\ trees[t].size = Len(IterKeys(heap, trees[t].root))
    /\ trees[t].size = Cardinality(Reach(heap, trees[t].root))
    /\ (trees[t].root = NULL) <=> (trees[t].size = 0)

C5_DuplicateInsertChangesNothing ==
  [][\A k \in present["t1"] :
       InsertOp("t1", k, "insert") =>
         /\ last'.res = "data_already_exists"
         /\ heap' = heap
         /\ trees' = trees]_vars

C5_Witness ==
  /\ last.op = "insert" /\ last.res = "data_already_exists"
  /\ T1.size >= 3

\* C6: remove(k) on a tree that does not hold k, the empty tree included, throws
\* data_not_found and changes nothing: every node, the root, the size and min/max
\* are as before the call.
C6_AbsentRemoveChangesNothing ==
  [][\A k \in Keys \ present["t1"] :
       RemoveOp("t1", k) =>
         /\ last'.res = "data_not_found"
         /\ heap' = heap
         /\ trees' = trees]_vars

C6_Witness ==
  /\ last.op = "remove" /\ last.res = "data_not_found"
  /\ T1.size >= 3

\* the key set of an input of unite, as its iteration yields it
KeysOf(t) == Range(IterKeys(heap, trees[t].root))

\* C7: the tree the copying unite returns iterates as the sorted union, without
\* duplicates, of the key sets of its two arguments (which may be the same tree,
\* or empty), and its size() is the number of keys of the union.
C7_CopyUniteIsUnion ==
  last.op = "unite_copy" =>
    /\ \A t \in Inputs : KeysOf(t) = present[t]
    /\ \E t1 \in Inputs, t2 \in Inputs :
         /\ IterKeys(heap, U.root) = SortedSeq(KeysOf(t1) \cup KeysOf(t2))
         /\ U.size = Cardinality(KeysOf(t1) \cup KeysOf(t2))
    /\ IterKeys(heap, U.root) = SortedSeq(present["u"])
    /\ U.size = Cardinality(present["u"])

C7_Witness ==
  /\ last.op = "unite_copy"
  /\ Cardinality(present["t1"]) = 2 /\ Cardinality(present["t2"]) = 2
  /\ present["t1"] \cap present["t2"] # {}
  /\ U.size = 3

\* C8: the copying unite leaves its arguments as they were (nodes, links, cached
\* heights, root, size, min/max) and its result shares no node with them.
C8_CopyUniteKeepsInputs ==
  [][last'.op = "unite_copy" =>
       /\ \A t \in Inputs : trees'[t] = trees[t]
       /\ \A n \in DOMAIN heap : n \in DOMAIN heap' /\ heap'[n] = heap[n]
       /\ Reach(heap', trees'["u"].root) \cap DOMAIN heap = {}]_vars

C8_Witness ==
  /\ last.op = "unite_copy"
  /\ T1.size >= 2 /\ trees["t2"].size >= 2
  /\ U.size >= 3

\* C9: the tree the consuming unite returns iterates as the sorted union, without
\* duplicates, of the key sets of its two arguments, and its size() is the number
\* of keys of the union.
C9_MoveUniteIsUnion ==
  last.op = "unite_move" =>
    /\ IterKeys(heap, U.root) = SortedSeq(present["u"])
    /\ U.size = Cardinality(present["u"])

\* C10: in a tree returned by unite, copying or consuming, every node's cached
\* height is 1 + max of its children's heights (-1 for an absent child), so that
\* height() is the actual height of the result.
C10_UniteHeightsCorrect ==
  last.op \in {"unite_copy", "unite_move"} =>
    /\ HeightsCorrect(heap, U.root)
    /\ height(heap, U.root) = _get_tree_height_rec(heap, U.root)

\* C11: a tree returned by unite, and every tree reached from it by insert and
\* remove calls, has at every node two subtrees whose actual heights differ by at
\* most 1, and its iteration is strictly increasing.
C11_BalancedAfterUnite ==
  OnUnited => /\ Balanced(heap, U.root)
              /\ StrictlyIncreasing(IterKeys(heap, U.root))

\* C12: after any sequence of insert and remove calls on an empty tree every
\* node's cached height is 1 + the larger height of its children (-1 for an absent
\* child), and height() is the actual height of the tree, -1 when it is empty.
C12_HeightsAfterInsertRemove ==
  /\ HeightsCorrect(heap, T1.root)
  /\ height(heap, T1.root) = _get_tree_height_rec(heap, T1.root)
  /\ T1.root = NULL => height(heap, T1.root) = -1

C12_Witness ==
  /\ last.op = "remove" /\ last.res = "ok"
  /\ T1.size = 3
  /\ height(heap, T1.root) = 1

HasDuplicate(list) == Cardinality(Set(list)) < Len(list)

\* C13: the list constructor handed a list with a duplicate key stops at the
\* duplicate with every node it inserted released and no root, and every
\* construction that ends with bad_input leaves the heap and all trees as they
\* were before it began.
C13_DuplicateBatchReleasesAll ==
  [][/\ DOMAIN heap = {} =>
          \A list \in Lists :
            HasDuplicate(list) =>
              LET r == CtorLoop([h |-> heap, root |-> NULL], list, 1)
              IN ~r.ok /\ r.C.h = heap /\ r.C.root = NULL
     /\ (last'.op = "list_ctor" /\ last'.res = "bad_input") =>
          heap' = heap /\ trees' = trees]_vars

C13_Witness ==
  /\ last.op = "list_ctor" /\ last.res = "bad_input" /\ last.tree = "t2"
  /\ T1.size = 3
  /\ trees["t2"].root = NULL

\* the members [root, min, max, size] of S
Members(S) == [root |-> S.C.root, min |-> S.min, max |-> S.max, size |-> S.size]

\* C14: the list constructor handed a non-empty list of distinct keys builds the
\* tree that inserting the keys one by one in list order into an empty tree builds
\* (same nodes, links, root, size, min, max); the constructed tree has as many
\* nodes as the list has keys, iterates them in ascending order, has min and max
\* on its least and greatest key and is balanced, with height 1 for three keys.
C14_BatchIsSequentialInserts ==
  /\ DOMAIN heap = {} =>
       \A list \in Lists :
         (list # << >> /\ ~HasDuplicate(list)) =>
           LET r == CtorLoop([h |-> heap, root |-> NULL], list, 1)
               S == InsertEach(NewTree(heap), list, 1)
           IN r.ok /\ r.C = S.C /\ Constructed(r.C, Len(list)) = Members(S)
  /\ (last.op = "list_ctor" /\ last.res = "ok") =>
       LET t == trees[last.tree]
           keys == SortedSeq(present[last.tree])
       IN /\ t.size = Len(keys) /\ t.size > 0
          /\ IterKeys(heap, t.root) = keys
          /\ t.min # NULL /\ heap[t.min].data = keys[1]
          /\ t.max # NULL /\ heap[t.max].data = keys[Len(keys)]
          /\ Balanced(heap, t.root)
          /\ t.size = 3 => _get_tree_height_rec(heap, t.root) = 1

C14_Witness ==
  /\ last.op = "list_ctor" /\ last.res = "ok" /\ last.tree = "t2"
  /\ trees["t2"].size = 3 /\ T1.size = 3
  /\ _get_tree_height_rec(heap, trees["t2"].root) = 1

\* C15: the list constructor ends with no error other than bad_input, and handed
\* the empty list it succeeds and constructs an empty tree: no root, size 0, min
\* and max absent, height() -1 and begin() equal to end().
C15_EmptyBatchSucceeds ==
  [][/\ last'.op = "list_ctor" => last'.res \in {"ok", "bad_input"}
     /\ \A t \in Inputs :
          (Pristine(t) /\ ListCtorOp(t, << >>)) =>
            /\ last'.res = "ok"
            /\ trees'[t] = EmptyTree
            /\ height(heap', trees'[t].root) = -1
            /\ _get_left_most_node(heap', trees'[t].root) = NULL]_vars

\* the tree is empty and no key can be found in it
Drained ==
  /\ T1.root = NULL /\ T1.size = 0
  /\ \A k \in Keys : _search_aux(Ctx("t1"), k) = NULL

C17_ConsumingUniteEmptiesInputs ==
  last.op = "unite_move" =>
    \A t \in Inputs : /\ trees[t] = EmptyTree
                      /\ Begin(heap, t) = NULL
                      /\ IterKeys(heap, trees[t].root) = << >>


\* the subtrees at a and b hold the same keys in the same positions with the same
\* cached heights
RECURSIVE SameShape(_, _, _)
SameShape(h, a, b) ==
  IF a = NULL \/ b = NULL THEN a = b
  ELSE /\ h[a].data = h[b].data
       /\ h[a].height = h[b].height
       /\ SameShape(h, h[a].left, h[b].left)
       /\ SameShape(h, h[a].right, h[b].right)

\* the node n of the tree at root hangs under a node of that tree
ParentInside(h, root, n) ==
  /\ h[n].parent \in Reach(h, root)
  /\ n \in {h[h[n].parent].left, h[h[n].parent].right}

\* C18: a deep copy (copy constructor or copy assignment) has the shape, keys and
\* cached heights of its source, shares no node with it, its root has no parent,
\* every other node's parent link refers to its parent inside the copy, and the
\* copy iterates the same keys as the source
C18_DeepCopyIndependent ==
  (last.op \in {"copy_ctor", "copy_assign"} /\ last.res = "ok") =>
    /\ SameShape(heap, trees["t2"].root, T1.root)
    /\ Reach(heap, trees["t2"].root) \cap Reach(heap, T1.root) = {}
    /\ heap[trees["t2"].root].parent = NULL
    /\ \A n \in Reach(heap, trees["t2"].root) \ {trees["t2"].root} :
         ParentInside(heap, trees["t2"].root, n)
    /\ IterKeys(heap, trees["t2"].root) = IterKeys(heap, T1.root)


\* the input that is not t
OtherInput(t) == IF t = "t1" THEN "t2" ELSE "t1"

\* C19: a move construction hands root, size, min and max of the source to the
\* new tree, creates and destroys no node, leaves the source with no root, size 0
\* and min/max cleared, and the new tree then iterates the keys the source
\* iterated before
C19_MoveTransfers ==
  [][\A t \in Inputs :
       (last'.op = "move_ctor" /\ last'.tree = t) =>
         /\ last'.res = "ok"
         /\ heap' = heap
         /\ trees'[t] = trees[OtherInput(t)]
         /\ trees'[OtherInput(t)] = EmptyTree
         /\ IterKeys(heap', trees'[OtherInput(t)].root) = << >>
         /\ IterKeys(heap', trees'[t].root) = IterKeys(heap, trees[OtherInput(t)].root)
         /\ IterKeys(heap', trees'[t].root) = SortedSeq(present[OtherInput(t)])]_vars

C19_Witness ==
  /\ last.op = "move_ctor" /\ last.tree = "t2"
  /\ trees["t2"].size = 3 /\ Len(IterKeys(heap, trees["t2"].root)) = 3
  /\ T1 = EmptyTree


\* C20: after clear() the tree is in the state of a newly constructed empty tree:
\* every node released, no root, size 0, and cached min and max cleared
C20_ClearGivesNewTree ==
  (last.op = "clear" /\ last.res = "ok") =>
    /\ Reach(heap, trees[last.tree].root) = {}
    /\ \A n \in DOMAIN heap : \E t \in TreeIds \ {last.tree} : n \in Reach(heap, trees[t].root)
    /\ trees[last.tree] = EmptyTree


\* the rightmost node reachable from node over __right; DIVERGES when the links
\* never end
RECURSIVE RightMostWalk(_, _, _)
RightMostWalk(h, node, fuel) ==
  IF h[node].right = NULL THEN node
  ELSE IF fuel = 0 THEN DIVERGES
  ELSE RightMostWalk(h, h[node].right, fuel - 1)

RightMost(h, node) == RightMostWalk(h, node, Fuel(h))

\* the cached min and max of the tree t are the leftmost and the rightmost node
\* reachable from its root, and both are cleared when it has no root
MinMaxCached(t) ==
  IF trees[t].root = NULL
  THEN trees[t].min = NULL /\ trees[t].max = NULL
  ELSE /\ trees[t].min = _get_left_most_node(heap, trees[t].root)
       /\ trees[t].max = RightMost(heap, trees[t].root)

\* C21: after every successful insert, remove, batch construction or unite the
\* cached min is the leftmost and the cached max the rightmost node reachable from
\* the root of a tree left non-empty, and after a remove that empties the tree both
\* are cleared
C21_MinMaxCached == (last.res = "ok") => \A t \in TreeIds : MinMaxCached(t)

C21_Witness ==
  /\ last.op = "remove" /\ last.res = "ok" /\ last.tree = "u"
  /\ U.size = 2 /\ U.min # U.root /\ U.max = U.root


\* floor(log2 n) for n >= 1
FloorLog2(n) == CHOOSE k \in 0..n : 2 ^ k <= n /\ n < 2 ^ (k + 1)

\* left_size as the claim words it, for n >= 2 (h >= 1)
ClaimedLeftSize(n) ==
  (2 ^ (FloorLog2(n) - 1) - 1) + Min2(n - 2 ^ FloorLog2(n) + 1, 2 ^ (FloorLog2(n) - 1))

\* the keys of the subtree at node, read over __left and __right
RECURSIVE InOrder(_, _)
InOrder(h, node) ==
  IF node = NULL THEN << >>
  ELSE InOrder(h, h[node].left) \o <<h[node].data>> \o InOrder(h, h[node].right)

\* the subtree at n is built by the claim's rule: its left subtree takes the first
\* left_size keys, and its actual height is floor(log2 of its size)
BuiltByRule(h, n) ==
  /\ Len(InOrder(h, n)) >= 2 =>
       Len(InOrder(h, h[n].left)) = ClaimedLeftSize(Len(InOrder(h, n)))
  /\ _get_tree_height_rec(h, n) = FloorLog2(Len(InOrder(h, n)))

\* every child of n names n as its parent
ChildrenPointBack(h, n) ==
  /\ h[n].left # NULL => h[h[n].left].parent = n
  /\ h[n].right # NULL => h[h[n].right].parent = n

\* C22: the almost-complete builder applied to an ascending array of n >= 1
\* distinct keys yields a tree whose in-order sequence is the array, whose root
\* (and every subtree's root) is the element at left_size of its array, whose actual
\* height is floor(log2 n), whose nodes all have subtrees differing in actual
\* height by at most 1, and in which every child's parent link is its parent
C22_BuilderAlmostComplete ==
  (last.op = "unite_copy" /\ present["t1"] # {}) =>
    /\ InOrder(heap, U.root) = SortedSeq(present["t1"])
    /\ U.size >= 2 => heap[U.root].data = SortedSeq(present["t1"])[ClaimedLeftSize(U.size) + 1]
    /\ U.size = 1 => heap[U.root].data = SortedSeq(present["t1"])[1]
    /\ _get_tree_height_rec(heap, U.root) = FloorLog2(Cardinality(present["t1"]))
    /\ \A n \in Reach(heap, U.root) : BuiltByRule(heap, n) /\ ChildrenPointBack(heap, n)
    /\ Balanced(heap, U.root)
    /\ heap[U.root].parent = NULL

C22_Witness ==
  /\ last.op = "unite_copy" /\ U.size = 9
  /\ Len(InOrder(heap, heap[U.root].left)) = 5
  /\ _get_tree_height_rec(heap, U.root) = 3


\* the links of the node n of the tree at root stay inside that tree
LinksInside(h, root, n) ==
  /\ h[n].left \in Reach(h, root) \cup {NULL}
  /\ h[n].right \in Reach(h, root) \cup {NULL}
  /\ h[n].parent \in Reach(h, root) \cup {NULL}

\* C23: the consuming unite allocates no node and builds its result from the
\* nodes of its two inputs only: each key of the result is held by exactly one
\* node reachable from the result's root, that node is a node of an input, and
\* every left/right/parent link of a result node refers to a result node or is
\* absent
C23_ConsumingUniteReusesNodes ==
  [][last'.op = "unite_move" =>
       /\ DOMAIN heap' = DOMAIN heap
       /\ Reach(heap', trees'["u"].root)
            \subseteq Reach(heap, T1.root) \cup Reach(heap, trees["t2"].root)
       /\ \A k \in present'["u"] :
            Cardinality({n \in Reach(heap', trees'["u"].root) : heap'[n].data = k}) = 1
       /\ \A n \in Reach(heap', trees'["u"].root) :
            LinksInside(heap', trees'["u"].root, n)]_vars


\* the call _balance_to_root(data_pptr) of _insert_aux for an absent key: the
\* context it is made on and its argument
InsertWalkStart(C, data) ==
  [C |-> LinkNew(C, data, _search_place_aux(C, data).parent, _search_place_aux(C, data).pp),
   pp |-> _search_place_aux(C, data).pp]

\* the call _balance_to_root(_get_node_pptr(parent_ptr)) that ends _remove_aux,
\* made after to_delete was deleted
WalkStartAfter(C, parent_ptr, to_delete) ==
  [C |-> Release(C, to_delete), pp |-> _get_node_pptr(C, parent_ptr)]

TwoChildrenWalkStart(C, data_pptr, w) ==
  WalkStartAfter(ParentToGrandparent(SpliceRight(_swap_nodes(C, w.pp, data_pptr), w.pp), w.pp),
                 w.parent, Deref(C, w.pp))

OneChildWalkStart(C, parent_ptr, node_pptr) ==
  WalkStartAfter(SetParent(IF C.h[Deref(C, node_pptr)].left # NULL
                           THEN SpliceLeft(C, node_pptr)
                           ELSE SpliceRight(C, node_pptr),
                           IF C.h[Deref(C, node_pptr)].left # NULL
                           THEN C.h[Deref(C, node_pptr)].left
                           ELSE C.h[Deref(C, node_pptr)].right,
                           parent_ptr),
                 parent_ptr, Deref(C, node_pptr))

\* the same call for the removal of the key held by target, found in slot p.pp
RemoveWalkStartAt(C, p, target) ==
  IF C.h[target].left # NULL /\ C.h[target].right # NULL
  THEN TwoChildrenWalkStart(C, p.pp, SuccessorWalk(C, target, <<"right", target>>))
  ELSE OneChildWalkStart(C, p.parent, p.pp)

RemoveWalkStart(C, data) ==
  RemoveWalkStartAt(C, _search_place_aux(C, data), _search_aux(C, data))

\* the rebalance the claim names for temp: LL if the left child's factor is >= 0,
\* else LR, when temp's factor is >= 2; RR if the right child's factor is <= 0,
\* else RL, when it is <= -2; none otherwise
ClaimedChoice(h, temp) ==
  IF _get_balance_factor(h, temp) >= 2
  THEN IF _get_balance_factor(h, h[temp].left) >= 0 THEN "LL" ELSE "LR"
  ELSE IF _get_balance_factor(h, temp) <= -2
  THEN IF _get_balance_factor(h, h[temp].right) <= 0 THEN "RR" ELSE "RL"
  ELSE "none"

\* one iteration of the walk, on the context C in which the height of temp has
\* just been recomputed: the rebalance applied is the one the claim names; when
\* one is due it is applied at temp (the slot holds temp), changes the tree and
\* leaves in that slot a node whose factor is within -1..1; when none is due the
\* tree is left as it is
StepObeysRule(C, temp, node_pptr) ==
  /\ RotationChoice(C.h, temp) = ClaimedChoice(C.h, temp)
  /\ ClaimedChoice(C.h, temp) = "none" => Rotate(C, temp, node_pptr) = C
  /\ ClaimedChoice(C.h, temp) # "none" =>
       /\ Deref(C, node_pptr) = temp
       /\ Rotate(C, temp, node_pptr) # C
       /\ _get_balance_factor(Rotate(C, temp, node_pptr).h,
                              Deref(Rotate(C, temp, node_pptr), node_pptr)) \in -1..1

RECURSIVE WalkObeysRule(_, _, _)

\* the walk goes on with the parent of temp, and an ancestor without a parent is
\* the root
WalkGoesUp(C, temp, node_pptr) ==
  /\ C.h[temp].parent = NULL => C.root = temp
  /\ WalkObeysRule(C, C.h[temp].parent, NextPptr(C, C.h[temp].parent, node_pptr))

\* every iteration of the while loop of _balance_to_root from temp obeys the rule
WalkObeysRule(C, temp, node_pptr) ==
  IF temp = NULL THEN TRUE
  ELSE /\ StepObeysRule(UpdateHeight(C, temp), temp, node_pptr)
       /\ WalkGoesUp(BalanceStep(C, temp, node_pptr), temp, node_pptr)

\* the walk of the call described by s = [C, pp]; no walk is made for a null slot
WalkFrom(s) ==
  IF s.pp = NULLPP \/ Deref(s.C, s.pp) = NULL THEN TRUE
  ELSE WalkObeysRule(s.C, Deref(s.C, s.pp), s.pp)

\* the walk that op (whose result is r) makes from s obeys the rule and leaves
\* every cached height recomputed
WalkOf(s, r) ==
  /\ WalkFrom(s)
  /\ r.ok /\ _balance_to_root(s.C, s.pp) = r.C
  /\ HeightsCorrect(r.C.h, r.C.root)

\* C24: in every walk to the root that an insert or a remove makes on a tree built
\* by inserts and removes, an ancestor whose balance factor is >= 2 or <= -2 gets
\* exactly the rebalance of the rule (LL if the left child's factor is >= 0 else
\* LR; RR if the right child's factor is <= 0 else RL), applied at that ancestor,
\* no other ancestor is rotated, and the walk goes on to the root with every
\* cached height recomputed
C24_WalkRebalancesByRule ==
  Running =>
    /\ \A data \in Keys \cup {T1.size} :
         _search_aux(Ctx("t1"), data) = NULL =>
           WalkOf(InsertWalkStart(Ctx("t1"), data), _insert_aux(Ctx("t1"), data))
    /\ \A data \in Keys :
         _search_aux(Ctx("t1"), data) # NULL =>
           WalkOf(RemoveWalkStart(Ctx("t1"), data), _remove_aux(Ctx("t1"), data))

\* a rebalance is due at the root of the context C once its height is recomputed
DueAtRoot(C, choice) == ClaimedChoice(UpdateHeight(C, C.root).h, C.root) = choice

\* a state from which remove(0) starts its walk below the root and must apply a
\* double rotation (RL) at the root
C24_Witness ==
  /\ Running /\ T1.size = 4 /\ _search_aux(Ctx("t1"), 0) # NULL
  /\ heap[_search_aux(Ctx("t1"), 0)].parent = T1.root
  /\ DueAtRoot(RemoveWalkStart(Ctx("t1"), 0).C, "RL")

====
